---- MODULE Spec2Model ----
(***************************************************************************)
(* Global sensitivity analysis engine of UQLibrary (src/gsa.py): the       *)
(* run_gsa orchestrator, the distribution samplers, the Sobol estimator    *)
(* (get_sobol_sample, calculate_sobol) and the Morris estimator            *)
(* (get_morris_poi_sample, calculate_morris).                              *)
(*                                                                         *)
(* Floating point values are modelled as exact rationals extended with     *)
(* +inf, -inf and NaN, combined by the IEEE rules numpy follows (x/0 is    *)
(* an infinity or NaN with a warning, never an exception).  numpy arrays   *)
(* are records [shape, v]: v is a nest of sequences, shape the tuple numpy *)
(* reports for it.                                                         *)
(***************************************************************************)
EXTENDS Integers, Sequences, FiniteSets, TLC

VARIABLES
    model,        \* the model object handed to run_gsa (attributes as fields)
    gsa_options,  \* the GsaOptions object
    np_random,    \* state of numpy's process-global generator np.random
    pc,           \* position of the running call
    err,          \* exception that ended the call, "none" while there is none
    sampler_log,  \* calls made to the samplers, in order
    eval_log,     \* calls made to model.eval_fcn, in order
    sobol,        \* locals of get_sobol_sample
    morris,       \* locals of get_morris_poi_sample and calculate_morris
    gsa_results,  \* the GsaResults object run_gsa fills
    other         \* a second call of get_morris_poi_sample, made for another model

vars == <<model, gsa_options, np_random, pc, err, sampler_log, eval_log,
          sobol, morris, gsa_results, other>>

(***************************************************************************)
(* Bounds of the model.                                                    *)
(***************************************************************************)
MaxPoi == 2
MaxQoi == 2
MaxSamp == 2
MaxSeed == 7

(***************************************************************************)
(* Floats: [n, d] is n/d in lowest terms with d > 0; d = 0 encodes the     *)
(* non-finite values: n = 1 is +inf, n = -1 is -inf, n = 0 is NaN.         *)
(***************************************************************************)
Abs(x) == IF x < 0 THEN -x ELSE x

Sgn(x) == IF x < 0 THEN -1 ELSE IF x > 0 THEN 1 ELSE 0

RECURSIVE GCD(_, _)
GCD(a, b) == IF b = 0 THEN a ELSE GCD(b, a % b)

Rat(n, d) ==
    IF d = 0 THEN [n |-> Sgn(n), d |-> 0]
    ELSE LET g == GCD(Abs(n), Abs(d))
         IN [n |-> (Sgn(d) * n) \div g, d |-> Abs(d) \div g]

Num(k) == [n |-> k, d |-> 1]

Zero == Num(0)

Half == [n |-> 1, d |-> 2]

NaN == [n |-> 0, d |-> 0]

PosInf == [n |-> 1, d |-> 0]

NegInf == [n |-> -1, d |-> 0]

IsNaN(x) == x.d = 0 /\ x.n = 0

IsFinite(x) == x.d > 0

RAdd(x, y) ==
    IF x.d = 0 /\ y.d = 0
    THEN (IF x.n = y.n THEN x ELSE NaN)
    ELSE Rat(x.n * y.d + y.n * x.d, x.d * y.d)

RNeg(x) == [n |-> -x.n, d |-> x.d]

RSub(x, y) == RAdd(x, RNeg(y))

RMul(x, y) == Rat(x.n * y.n, x.d * y.d)

RInv(x) == Rat(x.d, x.n)

RDiv(x, y) == RMul(x, RInv(y))

RAbs(x) == [n |-> Abs(x.n), d |-> x.d]

\* x <= y on floats: FALSE as soon as one side is NaN
RLeq(x, y) ==
    /\ ~IsNaN(x)
    /\ ~IsNaN(y)
    /\ IF x.d = 0 /\ y.d = 0 THEN x.n <= y.n
       ELSE IF x.d = 0 THEN x.n < 0
       ELSE IF y.d = 0 THEN y.n > 0
       ELSE x.n * y.d <= y.n * x.d

\* np.sqrt on the values the model feeds it (squares of integers)
RSqrt(x) ==
    IF x.d = 0 THEN (IF x.n = 1 THEN PosInf ELSE NaN)
    ELSE IF x.n < 0 THEN NaN
    ELSE Rat(CHOOSE r \in 0..x.n : r * r = x.n, CHOOSE r \in 1..x.d : r * r = x.d)

RECURSIVE RSum(_)
RSum(s) == IF s = <<>> THEN Zero ELSE RAdd(Head(s), RSum(Tail(s)))

Max(a, b) == IF a >= b THEN a ELSE b

(***************************************************************************)
(* numpy arrays.                                                           *)
(***************************************************************************)
NdArray(shape, v) == [shape |-> shape, v |-> v]

\* a 0-d value, as in the defaults of GsaResults
Scalar(x) == NdArray(<<>>, x)

Ndim(a) == Len(a.shape)

\* index along an axis of length n under broadcasting
Ix(i, n) == IF n = 1 THEN 1 ELSE i

\* elementwise Op on two 2-d arrays, with numpy's broadcasting of axes of length 1
Op2D(Op(_, _), x, y) ==
    LET r == Max(x.shape[1], y.shape[1])
        c == Max(x.shape[2], y.shape[2])
    IN NdArray(<<r, c>>,
               [i \in 1..r |-> [j \in 1..c |->
                   Op(x.v[Ix(i, x.shape[1])][Ix(j, x.shape[2])],
                      y.v[Ix(i, y.shape[1])][Ix(j, y.shape[2])])]])

\* elementwise Op on two 1-d arrays, with broadcasting
Op1D(Op(_, _), x, y) ==
    LET c == Max(x.shape[1], y.shape[1])
    IN NdArray(<<c>>, [j \in 1..c |-> Op(x.v[Ix(j, x.shape[1])], y.v[Ix(j, y.shape[1])])])

\* elementwise Op of a 1-d array and a 0-d value
Op1DScalar(Op(_, _), x, k) == NdArray(x.shape, [j \in 1..x.shape[1] |-> Op(x.v[j], k)])

\* a 1-d array seen as one row, the way numpy aligns it against a 2-d array
AsRow(x) == NdArray(<<1, x.shape[1]>>, <<x.v>>)

\* np.mean(x, axis=0) of a 2-d array
MeanAxis0(x) ==
    NdArray(<<x.shape[2]>>,
            [j \in 1..x.shape[2] |->
                RDiv(RSum([i \in 1..x.shape[1] |-> x.v[i][j]]), Num(x.shape[1]))])

RSquare(x, y) == RMul(RSub(x, y), RSub(x, y))

\* the variance with ddof = 1
VarAxis0Sample(x) ==
    NdArray(<<x.shape[2]>>,
            [j \in 1..x.shape[2] |->
                RDiv(RSum([i \in 1..x.shape[1] |->
                              RSquare(x.v[i][j], MeanAxis0(x).v[j])]),
                     Num(x.shape[1] - 1))])

\* np.var(x, axis=0) of a 2-d array: mean(abs(x - x.mean(axis=0))**2), ddof = 0
VarAxis0(x) == MeanAxis0(Op2D(RSquare, x, AsRow(MeanAxis0(x))))

\* np.concatenate((x, y), axis=0) of two 2-d arrays
Concatenate0(x, y) == NdArray(<<x.shape[1] + y.shape[1], x.shape[2]>>, x.v \o y.v)

\* x.reshape([n, k]) of an array that holds n*k values as (n,) or (n, k)
Reshape2(x, n, k) ==
    IF Ndim(x) = 1 THEN NdArray(<<n, k>>, [i \in 1..n |-> <<x.v[i]>>])
    ELSE NdArray(<<n, k>>, x.v)

\* x[:, [q]] of a 2-d array
ColumnOf(x, q) == NdArray(<<x.shape[1], 1>>, [i \in 1..x.shape[1] |-> <<x.v[i][q]>>])

\* x[:, :, q] of a 3-d array
SliceLast(x, q) ==
    NdArray(<<x.shape[1], x.shape[2]>>,
            [i \in 1..x.shape[1] |-> [j \in 1..x.shape[2] |-> x.v[i][j][q]]])

(***************************************************************************)
(* Sources of numbers outside the repository.  np.random is one generator  *)
(* for the whole process: every draw reads its state and advances it.  It  *)
(* is modelled as a small congruential generator whose state np_random     *)
(* holds; the seed is an input.  SALib's sobol_sequence.sample is          *)
(* stateless: each call returns the head of the sequence the library       *)
(* tabulates, and which table that is is an input of the call.             *)
(***************************************************************************)
NextRng(s) == (13 * s + 7) % 64

\* the number a generator in state s yields, in 0 .. m-1
RngOut(s, m) == (s \div 4) % m

\* k successive draws in 0 .. m-1 from state s: [out, st]
RECURSIVE RandInts(_, _, _)
RandInts(s, k, m) ==
    IF k = 0 THEN [out |-> <<>>, st |-> s]
    ELSE LET rest == RandInts(NextRng(s), k - 1, m)
         IN [out |-> <<RngOut(s, m)>> \o rest.out, st |-> rest.st]

\* values a standard normal draw takes in the model
RandnLevels == <<Num(-1), Zero, Num(1)>>

\* values a point of the quasi-random sequence takes in the model, in [0, 1]
BaseLevels == <<Zero, Half, Num(1)>>

\* scipy.stats.norm.ppf on BaseLevels
NormPpf(u) == IF u = Zero THEN NegInf ELSE IF u = Half THEN Zero ELSE PosInf

\* a flat sequence of n*k values as an n x k array, row by row
AsMatrix(flat, n, k) ==
    NdArray(<<n, k>>, [i \in 1..n |-> [j \in 1..k |-> flat[(i - 1) * k + j]]])

\* the sequences SALib may tabulate, each named by the generator state that yields it
Tables == {0, 21, 42}

\* SALib.sample.sobol_sequence.sample(n, dim) when the library tabulates sequence `table`
sobol_sample(table, n, dim) ==
    LET draws == RandInts(table, n * dim, 3).out
    IN AsMatrix([i \in 1..(n * dim) |-> BaseLevels[draws[i] + 1]], n, dim)

(***************************************************************************)
(* The model object and its evaluation function.  eval_fcn is supplied by  *)
(* the user; the model draws it from three functions, each with n_qoi      *)
(* outputs: a constant, the linear x[0] + 2*x[1] + ... and a product       *)
(* (interacting parameters).  With one output the function returns one     *)
(* value per sample row, the form lines 150 and 165 of get_sobol_sample    *)
(* take; with more it returns an n x n_qoi array.                          *)
(***************************************************************************)
Fcns == {"constant", "linear", "product"}

RECURSIVE RProd(_)
RProd(s) == IF s = <<>> THEN Num(1) ELSE RMul(Head(s), RProd(Tail(s)))

\* output q of the evaluation function on one sample row x
EvalRow(fcn, q, x) ==
    CASE fcn = "constant" -> Num(q)
      [] fcn = "linear" -> RSum([j \in 1..Len(x) |-> RMul(Num(j + q - 1), x[j])])
      [] fcn = "product" -> RMul(Num(q), RProd(x))

\* model.eval_fcn(samp) on an n x n_poi array
eval_fcn(m, samp) ==
    IF m.n_qoi = 1
    THEN NdArray(<<samp.shape[1]>>,
                 [i \in 1..samp.shape[1] |-> EvalRow(m.eval_fcn, 1, samp.v[i])])
    ELSE NdArray(<<samp.shape[1], m.n_qoi>>,
                 [i \in 1..samp.shape[1] |->
                     [q \in 1..m.n_qoi |-> EvalRow(m.eval_fcn, q, samp.v[i])]])

\* the content of np.empty before it is written: whatever the memory held
Uninit == [n |-> 0, d |-> -1]

\* a Python value that is a plain string (not callable)
Str(s) == [callable |-> FALSE, tag |-> s]

\* the lambda get_samp_dist builds in the branch named kind
Closure(kind) == [callable |-> TRUE, tag |-> kind]

\* an attribute that was never set
Unset == [callable |-> FALSE, tag |-> "<unset>"]

\* the names Model.__init__ accepts (valid_distribution)
ValidDistributions == {"uniform", "saltelli uniform", "normal", "saltelli normal"}

\* distribution names the model draws model.dist from
Dists == {"uniform", "normal", "saltellinormal", "saltelli uniform", "saltelli normal",
          "InverseCDF"}

\* str.lower()
Lower(s) == IF s = "InverseCDF" THEN "inversecdf" ELSE s

\* one column of dist_param: (lower, upper) for uniform, (mean, variance) for normal
ParamCols == <<<<Num(0), Num(1)>>, <<Num(1), Num(4)>>>>

\* the 2 x n_poi parameter matrices the model draws dist_param from
DistParams(n_poi) ==
    { NdArray(<<2, n_poi>>,
              [r \in 1..2 |-> [j \in 1..n_poi |-> ParamCols[((j + k) % 2) + 1][r]]]) :
      k \in 0..1 }

\* x[:, lo:hi] of a 2-d array (0-based, hi exclusive)
Cols(x, lo, hi) ==
    NdArray(<<x.shape[1], hi - lo>>,
            [i \in 1..x.shape[1] |-> [j \in 1..(hi - lo) |-> x.v[i][lo + j]]])

\* x[[r], :] of a 2-d array (0-based r)
RowOf(x, r) == NdArray(<<1, x.shape[2]>>, <<x.v[r + 1]>>)

\* elementwise f on a 2-d array
Map2D(F(_), x) ==
    NdArray(x.shape, [i \in 1..x.shape[1] |-> [j \in 1..x.shape[2] |-> F(x.v[i][j])]])

\* both matrices cut from the first half of the sequence
saltelli_sample_one_half(table, n_samp_sobol, dist_param) ==
    LET n_poi == dist_param.shape[2]
        base_sample == sobol_sample(table, n_samp_sobol, n_poi * 2)
        base_a == Cols(base_sample, 0, n_poi)
        width == Op2D(RSub, RowOf(dist_param, 1), RowOf(dist_param, 0))
        samp_a == Op2D(RAdd, RowOf(dist_param, 0), Op2D(RMul, width, base_a))
    IN [a |-> samp_a, b |-> samp_a, base |-> base_sample]

saltelli_sample(table, n_samp_sobol, dist_param) ==
    LET n_poi == dist_param.shape[2]
        base_sample == sobol_sample(table, n_samp_sobol, n_poi * 2)
        base_a == Cols(base_sample, 0, n_poi)
        base_b == Cols(base_sample, n_poi, 2 * n_poi)
        width == Op2D(RSub, RowOf(dist_param, 1), RowOf(dist_param, 0))
        samp_a == Op2D(RAdd, RowOf(dist_param, 0), Op2D(RMul, width, base_a))
        samp_b == Op2D(RAdd, RowOf(dist_param, 0), Op2D(RMul, width, base_b))
    IN [a |-> samp_a, b |-> samp_b, base |-> base_sample]

saltelli_normal(table, n_samp_sobol, dist_param) ==
    LET n_poi == dist_param.shape[2]
        base_sample == sobol_sample(table, n_samp_sobol, n_poi * 2)
        base_a == Cols(base_sample, 0, n_poi)
        base_b == Cols(base_sample, n_poi, 2 * n_poi)
        transformA == Map2D(NormPpf, base_a)
        transformB == Map2D(NormPpf, base_b)
        sd == Map2D(RSqrt, RowOf(dist_param, 1))
        samp_a == Op2D(RAdd, Op2D(RMul, transformA, sd), RowOf(dist_param, 0))
        samp_b == Op2D(RAdd, Op2D(RMul, transformB, sd), RowOf(dist_param, 0))
    IN [a |-> samp_a, b |-> samp_b, base |-> base_sample]

\* np.random.randn(n, k) from generator state s: [out, st]
randn(s, n, k) ==
    LET draws == RandInts(s, n * k, 3)
    IN [out |-> AsMatrix([i \in 1..(n * k) |-> RandnLevels[draws.out[i] + 1]], n, k),
        st |-> draws.st]

\* the 'normal' lambda of get_samp_dist: [out, st]
normal_sample(s, n_samp_sobol, m) ==
    LET z == randn(s, n_samp_sobol, m.n_poi)
    IN [out |-> Op2D(RAdd, Op2D(RMul, z.out, Map2D(RSqrt, RowOf(m.dist_param, 1))),
                     RowOf(m.dist_param, 0)),
        st |-> z.st]

\* distribution names get_samp_dist has a branch for; the 'InverseCDF' branch compares a
\* lower-cased name with a name that has capitals, so no name selects it
SamplerKinds == {"normal", "saltellinormal", "uniform", "exponential", "beta"}

\* a final branch that attaches the uniform sampler instead of raising
get_samp_dist_fallback(m) ==
    [raised |-> "none",
     model |-> [m EXCEPT !.sample = IF Lower(m.dist) \in SamplerKinds
                                    THEN Closure(Lower(m.dist)) ELSE Closure("uniform")]]

\* the normal family switched to its paired sampler by renaming the model's distribution
get_samp_dist_renaming(m) ==
    LET name == IF Lower(m.dist) = "normal" THEN "saltellinormal" ELSE Lower(m.dist)
    IN IF name \in SamplerKinds
       THEN [raised |-> "none", model |-> [m EXCEPT !.sample = Closure(name), !.dist = name]]
       ELSE [raised |-> "Exception", model |-> m]

\* get_samp_dist(model, gsa_options): the model with its sampler attached, or the exception
get_samp_dist(m) ==
    IF Lower(m.dist) \in SamplerKinds
    THEN [raised |-> "none", model |-> [m EXCEPT !.sample = Closure(Lower(m.dist))]]
    ELSE [raised |-> "Exception", model |-> m]

\* one call sampler(n) of a closure built by get_samp_dist, from generator state s with
\* the quasi-random table `table`: the value returned (a pair or one array), the generator
\* state left behind and the record of the call
CallSampler(closure, m, n, s, table) ==
    CASE closure.tag = "uniform" ->
           LET r == saltelli_sample(table, n, m.dist_param)
           IN [pair |-> TRUE, a |-> r.a, b |-> r.b, st |-> s,
               call |-> [fn |-> "saltelli_sample", n |-> n, base |-> r.base]]
      [] closure.tag = "saltellinormal" ->
           LET r == saltelli_normal(table, n, m.dist_param)
           IN [pair |-> TRUE, a |-> r.a, b |-> r.b, st |-> s,
               call |-> [fn |-> "saltelli_normal", n |-> n, base |-> r.base]]
      [] closure.tag = "normal" ->
           LET r == normal_sample(s, n, m)
           IN [pair |-> FALSE, a |-> r.out, b |-> r.out, st |-> r.st,
               call |-> [fn |-> "np.random.randn", n |-> n, base |-> Scalar(NaN)]]

(***************************************************************************)
(* GsaOptions and GsaResults.                                              *)
(***************************************************************************)
DefaultLMorris == 3

GsaOptions(run, run_sobol, run_morris, n_samp_sobol, n_samp_morris, l_morris) ==
    [run |-> run,
     run_sobol |-> IF run = FALSE THEN FALSE ELSE run_sobol,
     run_morris |-> IF run = FALSE THEN FALSE ELSE run_morris,
     n_samp_sobol |-> n_samp_sobol,
     n_samp_morris |-> n_samp_morris,
     l_morris |-> l_morris]

SobolFields == {"sobol_base", "sobol_tot", "f_a", "f_b", "f_d", "f_ab", "samp_d"}

MorrisFields == {"morris_mean_abs", "morris_mean", "morris_variance"}

GsaResults == [f \in SobolFields \cup MorrisFields |-> Scalar(NaN)]

(***************************************************************************)
(* Sobol estimator.                                                        *)
(***************************************************************************)
\* a name not bound yet
Unbound == Scalar(Uninit)

SobolLocals ==
    [samp_a |-> Unbound, samp_b |-> Unbound, f_a |-> Unbound, f_b |-> Unbound,
     f_d |-> Unbound, f_ab |-> Unbound, i_param |-> 0]

\* np.empty(shape) for 2 and 3 axes
Empty2(n, k) == NdArray(<<n, k>>, [i \in 1..n |-> [j \in 1..k |-> Uninit]])

Empty3(n, k, l) ==
    NdArray(<<n, k, l>>, [i \in 1..n |-> [j \in 1..k |-> [q \in 1..l |-> Uninit]]])

\* a loop that leaves out the last parameter
MixedLoopStopShort(m) == m.n_poi - 1

\* line 160: where range(0, model.n_poi) stops
MixedLoopStop(m) == m.n_poi

\* samp_ab = samp_a without the copy: the swap is written into samp_a itself
MixedDesignAliased(samp_a, samp_b, i_param) ==
    LET samp_ab == NdArray(samp_a.shape,
                           [i \in 1..samp_a.shape[1] |-> [j \in 1..samp_a.shape[2] |->
                               IF j = i_param + 1 THEN samp_b.v[i][j] ELSE samp_a.v[i][j]]])
    IN [samp_a |-> samp_ab, samp_b |-> samp_b, samp_ab |-> samp_ab]

\* lines 162-163: samp_ab is a copy of samp_a whose column i_param (0-based) is that of
\* samp_b; samp_a and samp_b are the arrays the two names are bound to afterwards
MixedDesign(samp_a, samp_b, i_param) ==
    [samp_a |-> samp_a,
     samp_b |-> samp_b,
     samp_ab |-> NdArray(samp_a.shape,
                         [i \in 1..samp_a.shape[1] |-> [j \in 1..samp_a.shape[2] |->
                             IF j = i_param + 1 THEN samp_b.v[i][j] ELSE samp_a.v[i][j]]])]

\* f_ab[:, i_param] = y for a 2-d f_ab and a 1-d y
SetColumn(f_ab, i_param, y) ==
    NdArray(f_ab.shape,
            [i \in 1..f_ab.shape[1] |-> [j \in 1..f_ab.shape[2] |->
                IF j = i_param + 1 THEN y.v[i] ELSE f_ab.v[i][j]]])

\* f_ab[:, i_param, :] = y for a 3-d f_ab and a 2-d y
SetPlane(f_ab, i_param, y) ==
    NdArray(f_ab.shape,
            [i \in 1..f_ab.shape[1] |-> [j \in 1..f_ab.shape[2] |->
                IF j = i_param + 1 THEN y.v[i] ELSE f_ab.v[i][j]]])

RSq(x) == RMul(x, x)

\* the product without the F_A term
FirstOrderTermUncentred(f_a, f_b, f_ab) == Op2D(RMul, f_b, f_ab)

\* lines 216 and 224: f_b*(f_ab-f_a), an array of N x n_poi products
FirstOrderTerm(f_a, f_b, f_ab) == Op2D(RMul, f_b, Op2D(RSub, f_ab, f_a))

\* lines 219 and 226: (f_a-f_ab)**2
TotalTerm(f_a, f_ab) == Map2D(RSq, Op2D(RSub, f_a, f_ab))

calculate_sobol(f_a, f_b, f_ab, f_d) ==
    LET n_qoi == IF Ndim(f_ab) = 3 THEN f_ab.shape[3] ELSE 1
        n_poi == IF Ndim(f_ab) = 1 THEN 1 ELSE f_ab.shape[2]
        fDvar == VarAxis0(f_d)
        two_fDvar == Op1DScalar(RMul, fDvar, Num(2))
    IN IF n_qoi = 1
       THEN [sobol_base |->
                 Op1D(RDiv, MeanAxis0(FirstOrderTerm(f_a, f_b, f_ab)), fDvar),
             sobol_tot |->
                 Op1D(RDiv, MeanAxis0(TotalTerm(f_a, f_ab)), two_fDvar)]
       ELSE [sobol_base |->
                 NdArray(<<n_qoi, n_poi>>,
                     [q \in 1..n_qoi |->
                         Op1DScalar(RDiv,
                             MeanAxis0(FirstOrderTerm(ColumnOf(f_a, q), ColumnOf(f_b, q),
                                                      SliceLast(f_ab, q))),
                             fDvar.v[q]).v]),
             sobol_tot |->
                 NdArray(<<n_qoi, n_poi>>,
                     [q \in 1..n_qoi |->
                         Op1DScalar(RDiv,
                             MeanAxis0(TotalTerm(ColumnOf(f_a, q), SliceLast(f_ab, q))),
                             two_fDvar.v[q]).v])]

(***************************************************************************)
(* Morris estimator.                                                       *)
(***************************************************************************)
MorrisLocals ==
    [param_dist |-> Unset, n_samp |-> 0, n_poi |-> 0, pert_distance |-> NaN,
     random |-> TRUE, paired |-> FALSE, random_samp |-> Unbound, i_samp |-> 0,
     morris_samp |-> Unbound, D |-> <<>>, P |-> <<>>, caller |-> "none"]

\* run_gsa line 83: l_morris / (2*(l_morris-1)) on Python numbers (l_morris # 1)
PertDistance(l_morris) == Rat(l_morris, 2 * (l_morris - 1))

\* np.matmul of two 2-d arrays
MatMul(x, y) ==
    NdArray(<<x.shape[1], y.shape[2]>>,
            [i \in 1..x.shape[1] |-> [j \in 1..y.shape[2] |->
                RSum([k \in 1..x.shape[2] |-> RMul(x.v[i][k], y.v[k][j])])]])

\* np.ones((n, k))
Ones(n, k) == NdArray(<<n, k>>, [i \in 1..n |-> [j \in 1..k |-> Num(1)]])

\* np.tril(np.ones((n, k)), 0): the diagonal kept
TrilOnesDiagonal(n, k) ==
    NdArray(<<n, k>>, [i \in 1..n |-> [j \in 1..k |-> IF j <= i THEN Num(1) ELSE Zero]])

\* np.tril(np.ones((n, k)), -1)
TrilOnes(n, k) ==
    NdArray(<<n, k>>, [i \in 1..n |-> [j \in 1..k |-> IF j < i THEN Num(1) ELSE Zero]])

\* np.diag(d) of a sequence of integers
Diag(d) ==
    NdArray(<<Len(d), Len(d)>>,
            [i \in 1..Len(d) |-> [j \in 1..Len(d) |-> IF i = j THEN Num(d[i]) ELSE Zero]])

\* np.identity(n) with its rows in the order perm gives
PermMatrix(perm) ==
    NdArray(<<Len(perm), Len(perm)>>,
            [i \in 1..Len(perm) |-> [j \in 1..Len(perm) |->
                IF perm[i] = j THEN Num(1) ELSE Zero]])

\* k * x for a 0-d k and a 2-d x
Scale2D(k, x) ==
    NdArray(x.shape, [i \in 1..x.shape[1] |-> [j \in 1..x.shape[2] |-> RMul(k, x.v[i][j])]])

\* np.random.choice(values, size=(k,)) from generator state s: [out, st]
choice(s, values, k) ==
    LET draws == RandInts(s, k, Len(values))
    IN [out |-> [i \in 1..k |-> values[draws.out[i] + 1]], st |-> draws.st]

\* np.random.shuffle of the rows 1..n: for i = n-1 down to 1, swap row i with a row drawn
\* from 0..i (0-based).  order is the rows so far, i the 0-based position: [out, st]
RECURSIVE shuffle(_, _, _)
shuffle(s, order, i) ==
    IF i < 1 THEN [out |-> order, st |-> s]
    ELSE LET j == RngOut(s, i + 1)
             swapped == [order EXCEPT ![i + 1] = order[j + 1], ![j + 1] = order[i + 1]]
         IN shuffle(NextRng(s), swapped, i - 1)

\* lines 292-307: the block of one trajectory from its base point theta (a row of
\* random_samp), the signs d and the row order perm of P
samp_mat(theta, d, perm, n_poi, pert_distance, random) ==
    LET J == Ones(n_poi + 1, n_poi)
        B == TrilOnes(n_poi + 1, n_poi)
        jTheta == Op2D(RMul, NdArray(<<1, n_poi>>, <<theta>>), J)
        twoB_J == Op2D(RSub, Scale2D(Num(2), B), J)
        pert == Scale2D(RDiv(pert_distance, Num(2)),
                        Op2D(RAdd, MatMul(twoB_J, Diag(d)), J))
    IN IF random
       THEN MatMul(Op2D(RAdd, jTheta, pert), PermMatrix(perm))
       ELSE Op2D(RAdd, jTheta, pert)

\* morris_samp[lo:hi, :] = block (0-based rows, hi exclusive)
SetRows(x, lo, hi, block) ==
    NdArray(x.shape,
            [i \in 1..x.shape[1] |-> IF lo < i /\ i <= hi THEN block.v[i - lo] ELSE x.v[i]])

\* a / b on Python ints (b # 0): always a float
TrueDiv(a, b) == [float |-> TRUE, val |-> Rat(a, b)]

\* calculate_morris(eval_fcn, morris_samp, pert_distance): the statistics, or the
\* exception that ends the call.  np.empty and range take only ints for a size.
\* f_eval_seperated is the tensor as the call leaves it, writes the indices on its first
\* axis that line 264 assigned, in order.
calculate_morris(m, morris_samp, pert_distance) ==
    LET f_eval_compact == eval_fcn(m, morris_samp)
        n_poi == morris_samp.shape[2]
        n_samp == TrueDiv(morris_samp.shape[1], n_poi + 1)
    IN IF Ndim(f_eval_compact) < 2
       THEN [raised |-> "IndexError", line |-> 259,
             f_eval_seperated |-> Unbound, writes |-> <<>>]
       ELSE IF n_samp.float
       THEN [raised |-> "TypeError", line |-> 262,
             f_eval_seperated |-> Unbound, writes |-> <<>>]
       ELSE [raised |-> "IndexError", line |-> 264,
             f_eval_seperated |-> Empty3(n_samp.val.n, n_poi + 1, f_eval_compact.shape[2]),
             writes |-> <<>>]

(***************************************************************************)
(* Initial states.  A call starts either in run_gsa, with a model that has *)
(* no sampler yet, or directly in get_morris_poi_sample, handed the        *)
(* sampler get_samp_dist attached to the model (the way the function is    *)
(* exercised on its own, with random = True or False).                     *)
(***************************************************************************)
\* no second call is under way
NoOtherCall == [pc |-> "none"]

\* the models with distribution name dist; dist_param is 2 x n_poi
Models(dist) ==
    UNION { { [dist |-> dist, n_poi |-> n_poi, n_qoi |-> n_qoi, eval_fcn |-> fcn,
               dist_param |-> dist_param, sample |-> Unset] :
              fcn \in Fcns, dist_param \in DistParams(n_poi) } :
            n_poi \in 1..MaxPoi, n_qoi \in 1..MaxQoi }

\* states of np.random to start from: only the normal sampler and the Morris matrices read it
Seeds(dist) == IF Lower(dist) = "normal" THEN 0..MaxSeed ELSE {0}

\* states of np.random a direct call of the Morris sampler starts from
MorrisSeeds == 0..MaxSeed

\* l_morris values: 1 (division by zero), the odd default, and an even value
Levels == {1, DefaultLMorris, 4}

\* the option objects GsaOptions() builds
AllOptions ==
    { GsaOptions(run, run_sobol, run_morris, n_samp_sobol, n_samp_morris, l_morris) :
      run \in BOOLEAN, run_sobol \in BOOLEAN, run_morris \in BOOLEAN,
      n_samp_sobol \in 1..MaxSamp, n_samp_morris \in 1..MaxSamp, l_morris \in Levels }

\* sample counts and levels of an estimator that does not run are never read
ValidOptions(o) ==
    /\ ~o.run_sobol => o.n_samp_sobol = 1
    /\ ~o.run_morris => o.n_samp_morris = 1 /\ o.l_morris = 4

\* the option objects a call starts from
Options == { o \in AllOptions : ValidOptions(o) }

InitCommon ==
    /\ other = NoOtherCall
    /\ err = "none"
    /\ sampler_log = <<>>
    /\ eval_log = <<>>
    /\ sobol = SobolLocals
    /\ gsa_results = GsaResults

InitRunGsa ==
    /\ pc = "run_gsa"
    /\ \E dist \in Dists :
         /\ model \in Models(dist)
         /\ np_random \in Seeds(dist)
    /\ gsa_options \in Options
    /\ morris = MorrisLocals
    /\ InitCommon

\* the options of a direct call of the Morris estimator
MorrisOptions == { o \in Options : o.run_morris /\ ~o.run_sobol /\ o.l_morris # 1 }

InitMorris ==
    /\ pc = "line286"
    /\ \E dist \in {"normal", "uniform"} :
         /\ \E m \in Models(dist) : model = get_samp_dist(m).model
         /\ np_random \in MorrisSeeds
    /\ gsa_options \in MorrisOptions
    /\ \E random \in BOOLEAN :
         morris = [MorrisLocals EXCEPT
                     !.param_dist = model.sample, !.n_samp = gsa_options.n_samp_morris,
                     !.n_poi = model.n_poi,
                     !.pert_distance = PertDistance(gsa_options.l_morris),
                     !.random = random, !.caller = "direct"]
    /\ InitCommon

Init == InitRunGsa \/ InitMorris

Raise(exception) ==
    /\ err' = exception
    /\ pc' = "raised"

(***************************************************************************)
(* run_gsa, lines 76-78: attach the sampler, make the result object.       *)
(***************************************************************************)
GetSampDist ==
    /\ pc = "run_gsa"
    /\ LET r == get_samp_dist(model)
       IN IF r.raised = "none"
          THEN /\ model' = r.model
               /\ pc' = "line80"
               /\ err' = err
          ELSE /\ Raise(r.raised)
               /\ model' = model
    /\ UNCHANGED <<gsa_options, other, np_random, sampler_log, eval_log, sobol, morris, gsa_results>>

(***************************************************************************)
(* run_gsa, lines 80-86: the perturbation distance and the call of         *)
(* get_morris_poi_sample with model.dist as its sampler.                   *)
(***************************************************************************)
MorrisCall ==
    /\ pc = "line80"
    /\ gsa_options.run_morris
    /\ IF gsa_options.l_morris = 1
       THEN /\ Raise("ZeroDivisionError")
            /\ morris' = morris
       ELSE /\ morris' = [MorrisLocals EXCEPT
                             !.param_dist = Str(model.dist),
                             !.n_samp = gsa_options.n_samp_morris,
                             !.n_poi = model.n_poi,
                             !.pert_distance = PertDistance(gsa_options.l_morris),
                             !.random = TRUE, !.caller = "run_gsa"]
            /\ pc' = "line286"
            /\ err' = err
    /\ UNCHANGED <<model, gsa_options, other, np_random, sampler_log, eval_log, sobol, gsa_results>>

MorrisSkip ==
    /\ pc = "line80"
    /\ ~gsa_options.run_morris
    /\ pc' = "line96"
    /\ UNCHANGED <<model, gsa_options, other, np_random, err, sampler_log, eval_log, sobol, morris,
                   gsa_results>>

(***************************************************************************)
(* get_morris_poi_sample, lines 286-290: the base points of all            *)
(* trajectories in one call of the sampler, and the empty result matrix.   *)
(***************************************************************************)
MorrisDraw ==
    /\ pc = "line286"
    /\ IF ~morris.param_dist.callable
       THEN /\ Raise("TypeError")
            /\ UNCHANGED <<morris, np_random, sampler_log>>
       ELSE \E table \in Tables :
              LET r == CallSampler(morris.param_dist, model, morris.n_samp, np_random, table)
              IN /\ morris' = [morris EXCEPT
                                  !.paired = r.pair,
                                  !.random_samp = r.a,
                                  !.i_samp = 0,
                                  !.morris_samp =
                                      Empty2(morris.n_samp * (morris.n_poi + 1), morris.n_poi)]
                 /\ np_random' = r.st
                 /\ sampler_log' = Append(sampler_log, r.call)
                 /\ pc' = "line291"
                 /\ err' = err
    /\ UNCHANGED <<model, gsa_options, other, eval_log, sobol, gsa_results>>

(***************************************************************************)
(* get_morris_poi_sample, lines 291-309: one pass of the loop builds the   *)
(* block of trajectory i_samp.  Both branches draw D and P from np.random. *)
(***************************************************************************)
MorrisTrajectory ==
    /\ pc = "line291"
    /\ morris.i_samp < morris.n_samp
    /\ IF morris.paired
       THEN /\ Raise("TypeError")
            /\ UNCHANGED <<morris, np_random>>
       ELSE LET n_poi == morris.n_poi
                i_samp == morris.i_samp
                theta == morris.random_samp.v[i_samp + 1]
                signs == choice(np_random, IF morris.random THEN <<1, -1>> ELSE <<1, 1>>, n_poi)
                rows == shuffle(signs.st, [k \in 1..n_poi |-> k], n_poi - 1)
                block == samp_mat(theta, signs.out, rows.out, n_poi, morris.pert_distance,
                                  morris.random)
            IN /\ morris' = [morris EXCEPT
                                !.morris_samp = SetRows(morris.morris_samp,
                                                        i_samp * (n_poi + 1),
                                                        (i_samp + 1) * (n_poi + 1), block),
                                !.D = Append(morris.D, signs.out),
                                !.P = Append(morris.P, rows.out),
                                !.i_samp = i_samp + 1]
               /\ np_random' = rows.st
               /\ UNCHANGED <<pc, err>>
    /\ UNCHANGED <<model, gsa_options, other, sampler_log, eval_log, sobol, gsa_results>>

(***************************************************************************)
(* Line 310 and the call of calculate_morris that follows it (run_gsa      *)
(* lines 88-93): the statistics go into the result object.                 *)
(***************************************************************************)
CalculateMorris ==
    /\ pc = "line291"
    /\ morris.i_samp = morris.n_samp
    /\ LET r == calculate_morris(model, morris.morris_samp, morris.pert_distance)
       IN /\ eval_log' = Append(eval_log, [what |-> "morris_samp", i_param |-> -1,
                                           x |-> morris.morris_samp])
          /\ Raise(r.raised)
    /\ UNCHANGED <<model, gsa_options, other, np_random, sampler_log, sobol, morris, gsa_results>>

(***************************************************************************)
(* get_sobol_sample, lines 141-148: the sample matrices A and B.           *)
(***************************************************************************)
SobolSample ==
    /\ pc = "line96"
    /\ gsa_options.run_sobol
    /\ LET n_samp_sobol == gsa_options.n_samp_sobol
       IN IF Lower(model.dist) = "uniform" \/ Lower(model.dist) = "saltellinormal"
          THEN \E table \in Tables :
                 LET r == CallSampler(model.sample, model, n_samp_sobol, np_random, table)
                 IN /\ sobol' = [sobol EXCEPT !.samp_a = r.a, !.samp_b = r.b]
                    /\ np_random' = r.st
                    /\ sampler_log' = Append(sampler_log, r.call)
          ELSE LET ra == CallSampler(model.sample, model, n_samp_sobol, np_random, 0)
                   rb == CallSampler(model.sample, model, n_samp_sobol, ra.st, 0)
               IN /\ sobol' = [sobol EXCEPT !.samp_a = ra.a, !.samp_b = rb.a]
                  /\ np_random' = rb.st
                  /\ sampler_log' = sampler_log \o <<ra.call, rb.call>>
    /\ pc' = "line150"
    /\ UNCHANGED <<model, gsa_options, other, err, eval_log, morris, gsa_results>>

SobolSkip ==
    /\ pc = "line96"
    /\ ~gsa_options.run_sobol
    /\ pc' = "line109"
    /\ UNCHANGED <<model, gsa_options, other, np_random, err, sampler_log, eval_log, sobol, morris,
                   gsa_results>>

(***************************************************************************)
(* get_sobol_sample, lines 150-159: evaluate A and B, stack them, and make *)
(* the empty tensor of the mixed designs.                                  *)
(***************************************************************************)
SobolEvalBase ==
    /\ pc = "line150"
    /\ LET n_samp_sobol == gsa_options.n_samp_sobol
           f_a == Reshape2(eval_fcn(model, sobol.samp_a), n_samp_sobol, model.n_qoi)
           f_b == Reshape2(eval_fcn(model, sobol.samp_b), n_samp_sobol, model.n_qoi)
       IN /\ sobol' = [sobol EXCEPT
                          !.f_a = f_a, !.f_b = f_b, !.f_d = Concatenate0(f_a, f_b),
                          !.f_ab = IF model.n_qoi = 1
                                   THEN Empty2(n_samp_sobol, model.n_poi)
                                   ELSE Empty3(n_samp_sobol, model.n_poi, model.n_qoi),
                          !.i_param = 0]
          /\ eval_log' = eval_log \o
                 <<[what |-> "samp_a", i_param |-> -1, x |-> sobol.samp_a],
                   [what |-> "samp_b", i_param |-> -1, x |-> sobol.samp_b]>>
    /\ pc' = "line160"
    /\ UNCHANGED <<model, gsa_options, other, np_random, err, sampler_log, morris, gsa_results>>

(***************************************************************************)
(* get_sobol_sample, lines 160-168: one pass of the loop over i_param.     *)
(***************************************************************************)
SobolEvalMixed ==
    /\ pc = "line160"
    /\ sobol.i_param < MixedLoopStop(model)
    /\ LET mixed == MixedDesign(sobol.samp_a, sobol.samp_b, sobol.i_param)
           y == eval_fcn(model, mixed.samp_ab)
       IN /\ eval_log' = Append(eval_log, [what |-> "samp_ab", i_param |-> sobol.i_param,
                                           x |-> mixed.samp_ab])
          /\ sobol' = [sobol EXCEPT
                          !.samp_a = mixed.samp_a, !.samp_b = mixed.samp_b,
                          !.f_ab = IF model.n_qoi = 1
                                   THEN SetColumn(sobol.f_ab, sobol.i_param, y)
                                   ELSE SetPlane(sobol.f_ab, sobol.i_param, y),
                          !.i_param = sobol.i_param + 1]
    /\ UNCHANGED <<model, gsa_options, other, np_random, pc, err, sampler_log, morris, gsa_results>>

(***************************************************************************)
(* get_sobol_sample line 169 and run_gsa lines 100-107: the indices and    *)
(* the raw tensors go into the result object.                              *)
(***************************************************************************)
SobolFinish ==
    /\ pc = "line160"
    /\ sobol.i_param >= MixedLoopStop(model)
    /\ LET samp_d == Concatenate0(sobol.samp_a, sobol.samp_b)
           r == calculate_sobol(sobol.f_a, sobol.f_b, sobol.f_ab, sobol.f_d)
       IN gsa_results' = [gsa_results EXCEPT
                             !.f_d = sobol.f_d, !.f_a = sobol.f_a, !.f_b = sobol.f_b,
                             !.f_ab = sobol.f_ab, !.samp_d = samp_d,
                             !.sobol_base = r.sobol_base, !.sobol_tot = r.sobol_tot]
    /\ pc' = "line109"
    /\ UNCHANGED <<model, gsa_options, other, np_random, err, sampler_log, eval_log, sobol, morris>>

\* run_gsa line 109
Return ==
    /\ pc = "line109"
    /\ pc' = "returned"
    /\ UNCHANGED <<model, gsa_options, other, np_random, err, sampler_log, eval_log, sobol, morris,
                   gsa_results>>

Next ==
    \/ GetSampDist
    \/ MorrisCall
    \/ MorrisSkip
    \/ MorrisDraw
    \/ MorrisTrajectory
    \/ CalculateMorris
    \/ SobolSample
    \/ SobolSkip
    \/ SobolEvalBase
    \/ SobolEvalMixed
    \/ SobolFinish
    \/ Return

Spec == Init /\ [][Next]_vars

(***************************************************************************)
(* Two calls of get_morris_poi_sample in one process, each made for its    *)
(* own model (two threads, or one call made between the statements of the  *)
(* other by a callback).  np.random.randn, np.random.choice and            *)
(* np.random.shuffle are functions of the numpy module: every call of them *)
(* draws from the one generator np_random.  Each call is atomic; a switch  *)
(* falls between the sampler call and the loop, or between two passes of   *)
(* the loop.                                                               *)
(***************************************************************************)
\* the models the calls are made for: normal, so that model.sample returns one matrix
TwoCallModels ==
    { get_samp_dist(m).model : m \in { k \in Models("normal") : k.eval_fcn = "linear" /\ k.n_qoi = 1 } }

InitTwoCalls ==
    /\ pc = "line286"
    /\ model \in TwoCallModels
    /\ np_random \in MorrisSeeds
    /\ gsa_options \in MorrisOptions
    /\ morris = [MorrisLocals EXCEPT
                   !.param_dist = model.sample, !.n_samp = gsa_options.n_samp_morris,
                   !.n_poi = model.n_poi,
                   !.pert_distance = PertDistance(gsa_options.l_morris),
                   !.random = TRUE, !.caller = "direct"]
    /\ \E m \in TwoCallModels, n_samp \in 1..MaxSamp :
         /\ m # model
         /\ other = [pc |-> "line286", model |-> m, n_samp |-> n_samp,
                     pert_distance |-> PertDistance(DefaultLMorris),
                     random_samp |-> Unbound, i_samp |-> 0,
                     morris_samp |-> Unbound, D |-> <<>>, P |-> <<>>,
                     np_random0 |-> np_random]
    /\ err = "none"
    /\ sampler_log = <<>>
    /\ eval_log = <<>>
    /\ sobol = SobolLocals
    /\ gsa_results = GsaResults

\* lines 286-290 of the second call
OtherDraw ==
    /\ other.pc = "line286"
    /\ LET r == CallSampler(other.model.sample, other.model, other.n_samp, np_random, 0)
       IN /\ other' = [other EXCEPT
                          !.random_samp = r.a,
                          !.morris_samp = Empty2(other.n_samp * (other.model.n_poi + 1),
                                                 other.model.n_poi),
                          !.pc = "line291"]
          /\ np_random' = r.st
          /\ sampler_log' = Append(sampler_log, r.call)
    /\ UNCHANGED <<model, gsa_options, pc, err, eval_log, sobol, morris, gsa_results>>

\* lines 291-309 of the second call: one pass of its loop
OtherTrajectory ==
    /\ other.pc = "line291"
    /\ other.i_samp < other.n_samp
    /\ LET n_poi == other.model.n_poi
           i_samp == other.i_samp
           theta == other.random_samp.v[i_samp + 1]
           signs == choice(np_random, <<1, -1>>, n_poi)
           rows == shuffle(signs.st, [k \in 1..n_poi |-> k], n_poi - 1)
           block == samp_mat(theta, signs.out, rows.out, n_poi, other.pert_distance, TRUE)
       IN /\ other' = [other EXCEPT
                          !.morris_samp = SetRows(other.morris_samp, i_samp * (n_poi + 1),
                                                  (i_samp + 1) * (n_poi + 1), block),
                          !.D = Append(other.D, signs.out),
                          !.P = Append(other.P, rows.out),
                          !.i_samp = i_samp + 1]
          /\ np_random' = rows.st
    /\ UNCHANGED <<model, gsa_options, pc, err, sampler_log, eval_log, sobol, morris,
                   gsa_results>>

NextTwoCalls ==
    \/ MorrisDraw
    \/ MorrisTrajectory
    \/ OtherDraw
    \/ OtherTrajectory

SpecTwoCalls == InitTwoCalls /\ [][NextTwoCalls]_vars

(***************************************************************************)
(* Properties.                                                             *)
(***************************************************************************)
\* get_sobol_sample and calculate_sobol have returned into run_gsa
SobolDone == gsa_options.run_sobol /\ pc \in {"line109", "returned"}

\* the evaluations the Sobol estimator made, in order
SobolEvals == SelectSeq(eval_log, LAMBDA e : e.what # "morris_samp")

RECURSIVE SumRows(_)
SumRows(log) == IF log = <<>> THEN 0 ELSE Head(log).x.shape[1] + SumRows(Tail(log))

\* C1: one Sobol run evaluates the model on exactly N*(n_poi+2) sample rows: the N rows
\* of A once, the N rows of B once, and the N rows of AB_i exactly once for each
\* parameter index i in [0, n_poi), in that order, none skipped and none repeated.
Thm_C1_SobolEvaluationCount ==
    SobolDone =>
        LET N == gsa_options.n_samp_sobol
            n_poi == model.n_poi
        IN /\ Len(SobolEvals) = n_poi + 2
           /\ SumRows(SobolEvals) = N * (n_poi + 2)
           /\ \A k \in 1..Len(SobolEvals) : SobolEvals[k].x.shape = <<N, n_poi>>
           /\ SobolEvals[1].what = "samp_a"
           /\ SobolEvals[2].what = "samp_b"
           /\ \A i \in 0..(n_poi - 1) :
                /\ SobolEvals[i + 3].what = "samp_ab"
                /\ SobolEvals[i + 3].i_param = i

Wit_C1_SobolEvaluationCount ==
    /\ SobolDone
    /\ pc = "returned"
    /\ model.n_poi = 2
    /\ gsa_options.n_samp_sobol = 2
    /\ Len(SobolEvals) = 4

\* C2: for every parameter index i the mixed design matrix evaluated equals A in every
\* column except column i and equals B in column i, where A and B are the matrices that
\* were evaluated at lines 150-151; the names samp_a and samp_b stay bound to those
\* matrices through every pass of the loop, so no pass sees the swap of an earlier one.
Thm_C2_MixedDesignFrame ==
    (pc \in {"line160", "line109", "returned"} /\ gsa_options.run_sobol) =>
        LET A == SobolEvals[1].x
            B == SobolEvals[2].x
        IN /\ sobol.samp_a = A
           /\ sobol.samp_b = B
           /\ \A k \in 3..Len(SobolEvals) :
                LET e == SobolEvals[k]
                IN /\ e.x.shape = A.shape
                   /\ \A r \in 1..A.shape[1], j \in 1..A.shape[2] :
                        e.x.v[r][j] = IF j = e.i_param + 1 THEN B.v[r][j] ELSE A.v[r][j]

\* both swaps were made, and each of them changed the matrix
Wit_C2_MixedDesignFrame ==
    /\ pc = "line160"
    /\ model.n_poi = 2
    /\ sobol.i_param = 2
    /\ SobolEvals[3].x # sobol.samp_a
    /\ SobolEvals[4].x # sobol.samp_a
    /\ SobolEvals[4].x # SobolEvals[3].x

\* entry (q, i) of an index result, whatever its number of axes
IndexAt(a, q, i) == IF Ndim(a) = 1 THEN a.v[i] ELSE a.v[q][i]

\* entry (r, i, q) of the mixed evaluations, whatever their number of axes
MixedAt(f_ab, r, i, q) == IF Ndim(f_ab) = 2 THEN f_ab.v[r][i] ELSE f_ab.v[r][i][q]

\* the mean of f(1), ..., f(n)
MeanOf(F(_), n) == RDiv(RSum([r \in 1..n |-> F(r)]), Num(n))

\* the population variance of output q over the 2N pooled values: E[x^2] - E[x]^2
PooledVar(f_d, q) ==
    LET n == f_d.shape[1]
        m == MeanOf(LAMBDA r : f_d.v[r][q], n)
    IN RSub(MeanOf(LAMBDA r : RMul(f_d.v[r][q], f_d.v[r][q]), n), RMul(m, m))

\* C3: for every output q and parameter i the first-order index returned is
\* mean(F_B[:,q] * (F_AB_i[:,q] - F_A[:,q])) / Var_q and the total-effect index is
\* mean((F_A[:,q] - F_AB_i[:,q])^2) / (2*Var_q), Var_q being the population variance
\* of the 2N pooled values F_D[:,q]; with one output and with several.
Thm_C3_SaltelliFormulas ==
    SobolDone =>
        LET N == gsa_options.n_samp_sobol
            f_a == gsa_results.f_a
            f_b == gsa_results.f_b
            f_ab == gsa_results.f_ab
        IN \A q \in 1..model.n_qoi, i \in 1..model.n_poi :
             LET Var_q == PooledVar(gsa_results.f_d, q)
                 first == MeanOf(LAMBDA r : RMul(f_b.v[r][q],
                                     RSub(MixedAt(f_ab, r, i, q), f_a.v[r][q])), N)
                 total == MeanOf(LAMBDA r : RSq(RSub(f_a.v[r][q],
                                     MixedAt(f_ab, r, i, q))), N)
             IN /\ IndexAt(gsa_results.sobol_base, q, i) = RDiv(first, Var_q)
                /\ IndexAt(gsa_results.sobol_tot, q, i) = RDiv(total, RMul(Num(2), Var_q))

\* a run with several outputs that ends with a finite, non-zero pair of indices
Wit_C3_SaltelliFormulas ==
    /\ SobolDone
    /\ model.n_qoi = 2
    /\ model.n_poi = 2
    /\ gsa_options.n_samp_sobol = 2
    /\ IsFinite(gsa_results.sobol_base.v[2][2])
    /\ gsa_results.sobol_base.v[2][2] # Zero
    /\ IsFinite(gsa_results.sobol_tot.v[2][2])
    /\ gsa_results.sobol_tot.v[2][2] # Zero

\* C4: for every valid configuration, n_qoi = 1 included, the first-order and the
\* total-effect results are two-dimensional, of shape n_qoi x n_poi.
Inv_C4_IndexShape ==
    SobolDone =>
        /\ gsa_results.sobol_base.shape = <<model.n_qoi, model.n_poi>>
        /\ gsa_results.sobol_tot.shape = <<model.n_qoi, model.n_poi>>

\* every entry of an index result is NaN
AllNaN(a) == \A q \in 1..model.n_qoi, i \in 1..model.n_poi : IsNaN(IndexAt(a, q, i))

\* C5: when the model returns the same constant for every input (pooled variance 0),
\* the Sobol run ends without an exception and the first-order and the total-effect
\* index of every parameter is NaN.
Thm_C5_ZeroVarianceNaN ==
    (model.eval_fcn = "constant" /\ gsa_options.run_sobol
       /\ pc \in {"line109", "returned", "raised"} /\ ~gsa_options.run_morris
       /\ model.sample # Unset) =>
        /\ err = "none"
        /\ \A q \in 1..model.n_qoi : PooledVar(gsa_results.f_d, q) = Zero
        /\ AllNaN(gsa_results.sobol_base)
        /\ AllNaN(gsa_results.sobol_tot)

Wit_C5_ZeroVarianceNaN ==
    /\ model.eval_fcn = "constant"
    /\ pc = "returned"
    /\ gsa_options.run_sobol
    /\ model.n_poi = 2
    /\ gsa_options.n_samp_sobol = 2
    /\ gsa_results.f_a.v[1][1] = Num(1)
    /\ AllNaN(gsa_results.sobol_base)

\* C6: for the uniform distribution one sampler call with count N returns A and B built
\* from the same N rows of one base sequence of dimension 2*n_poi:
\* A[r,j] = lower_j + (upper_j - lower_j)*base[r,j] and
\* B[r,j] = lower_j + (upper_j - lower_j)*base[r,n_poi+j], so the two use disjoint
\* halves of the coordinates, and every value lies in [lower_j, upper_j].
Thm_C6_UniformPairedSample ==
    (Lower(model.dist) = "uniform" /\ gsa_options.run_sobol
       /\ pc \in {"line150", "line160", "line109", "returned"}) =>
        LET N == gsa_options.n_samp_sobol
            n_poi == model.n_poi
            call == sampler_log[Len(sampler_log)]
            lower == model.dist_param.v[1]
            upper == model.dist_param.v[2]
        IN /\ Len(sampler_log) = 1
           /\ call.fn = "saltelli_sample"
           /\ call.n = N
           /\ call.base.shape = <<N, 2 * n_poi>>
           /\ sobol.samp_a.shape = <<N, n_poi>>
           /\ sobol.samp_b.shape = <<N, n_poi>>
           /\ \A r \in 1..N, j \in 1..n_poi :
                /\ sobol.samp_a.v[r][j] =
                       RAdd(lower[j], RMul(RSub(upper[j], lower[j]), call.base.v[r][j]))
                /\ sobol.samp_b.v[r][j] =
                       RAdd(lower[j], RMul(RSub(upper[j], lower[j]), call.base.v[r][n_poi + j]))
                /\ RLeq(lower[j], sobol.samp_a.v[r][j]) /\ RLeq(sobol.samp_a.v[r][j], upper[j])
                /\ RLeq(lower[j], sobol.samp_b.v[r][j]) /\ RLeq(sobol.samp_b.v[r][j], upper[j])

\* a paired draw whose two halves differ, with a value at a lower and one at an upper bound
Wit_C6_UniformPairedSample ==
    /\ Lower(model.dist) = "uniform"
    /\ pc = "line150"
    /\ model.n_poi = 2
    /\ gsa_options.n_samp_sobol = 2
    /\ sobol.samp_a # sobol.samp_b
    /\ \E r \in 1..2, j \in 1..2 : sobol.samp_a.v[r][j] = model.dist_param.v[1][j]
    /\ \E r \in 1..2, j \in 1..2 : sobol.samp_b.v[r][j] = model.dist_param.v[2][j]

\* C7: for the normal distribution A and B come from one paired draw of a single
\* 2*n_poi-dimensional quasi-random base sequence, each half passed through the inverse
\* normal CDF, scaled and shifted; never from two separate sampler calls.
Inv_C7_NormalPairedSample ==
    (Lower(model.dist) = "normal" /\ gsa_options.run_sobol
       /\ pc \in {"line150", "line160", "line109", "returned"}) =>
        /\ Len(sampler_log) = 1
        /\ sampler_log[1].fn = "saltelli_normal"
        /\ sampler_log[1].base.shape = <<gsa_options.n_samp_sobol, 2 * model.n_poi>>

\* the blocks get_morris_poi_sample has written so far
BlocksBuilt == morris.i_samp

\* the coordinates in which rows a and b of x differ
DiffCoords(x, a, b) == { j \in 1..x.shape[2] : x.v[a][j] # x.v[b][j] }

\* C8: the matrix get_morris_poi_sample returns has n_samp*(n_poi+1) rows, and in every
\* block of n_poi+1 rows each two consecutive rows differ in exactly one coordinate, by
\* the magnitude pert_distance, and no coordinate is perturbed twice within a block; for
\* every base point, D and P, with random = True and with random = False.
Thm_C8_MorrisBlocks ==
    (pc = "line291" /\ morris.caller = "direct") =>
        LET x == morris.morris_samp
            n_poi == morris.n_poi
            Step(s, k) == DiffCoords(x, s * (n_poi + 1) + k, s * (n_poi + 1) + k + 1)
        IN /\ x.shape = <<morris.n_samp * (n_poi + 1), n_poi>>
           /\ \A s \in 0..(BlocksBuilt - 1) :
                /\ \A k \in 1..n_poi :
                     /\ Cardinality(Step(s, k)) = 1
                     /\ \A j \in Step(s, k) :
                          RAbs(RSub(x.v[s * (n_poi + 1) + k + 1][j], x.v[s * (n_poi + 1) + k][j]))
                              = morris.pert_distance
                /\ \A k1 \in 1..n_poi, k2 \in 1..n_poi : k1 # k2 => Step(s, k1) # Step(s, k2)

\* all blocks built, with a negative sign and a permutation that is not the identity
Wit_C8_MorrisBlocks ==
    /\ pc = "line291"
    /\ morris.caller = "direct"
    /\ morris.random
    /\ morris.n_poi = 2
    /\ morris.n_samp = 2
    /\ morris.i_samp = 2
    /\ morris.P[1] = <<2, 1>>
    /\ morris.D[2] = <<-1, 1>>

\* calculate_morris has been called
MorrisCalculated == \E k \in 1..Len(eval_log) : eval_log[k].what = "morris_samp"

\* C9: for the linear model f(x) = x[0] + 2*x[1] and any base points, D and P, the Morris
\* statistics computed from the trajectories have mean elementary effects in the ratio of
\* the coefficients and a variance of 0 for every parameter.
Inv_C9_MorrisLinearStatistics ==
    (MorrisCalculated /\ model.eval_fcn = "linear" /\ model.n_poi = 2) =>
        /\ err = "none"
        /\ gsa_results.morris_variance.shape = <<2, model.n_qoi>>
        /\ \A i \in 1..2, q \in 1..model.n_qoi : gsa_results.morris_variance.v[i][q] = Zero
        /\ gsa_results.morris_mean.shape = <<2, model.n_qoi>>
        /\ gsa_results.morris_mean.v[2][1] = RMul(Num(2), gsa_results.morris_mean.v[1][1])

\* the fields of an estimator are all filled, or all at their default
Filled(fields) == \A f \in fields : gsa_results[f].shape # <<>>

Default(fields) == \A f \in fields : gsa_results[f] = Scalar(NaN)

\* C10: run_sobol and run_morris toggle the two estimators independently: in each of the
\* four combinations an estimator whose flag is false evaluates nothing and leaves its
\* result fields at NaN, and one whose flag is true fills all its fields, whatever the
\* other flag (for a supported distribution and an even l_morris).
Inv_C10_IndependentToggles ==
    (pc \in {"returned", "raised"} /\ morris.caller # "direct" /\ model.sample # Unset
       /\ gsa_options.l_morris = 4) =>
        /\ pc = "returned"
        /\ IF gsa_options.run_sobol
           THEN Filled(SobolFields)
           ELSE Default(SobolFields) /\ SobolEvals = <<>>
        /\ IF gsa_options.run_morris
           THEN Filled(MorrisFields)
           ELSE Default(MorrisFields) /\ ~MorrisCalculated

\* the call started in run_gsa (not directly in the Morris sampler)
ViaRunGsa == morris.caller # "direct"

\* C11: building the sampler for a distribution name get_samp_dist has no branch for fails
\* at that point with the exception of line 346: the call never gets past run_gsa line 77,
\* no sampler is attached, no sampler or model evaluation is called, and nothing is returned
\* (the result object is never filled).
Thm_C11_UnsupportedDistribution ==
    (ViaRunGsa /\ Lower(model.dist) \notin SamplerKinds) =>
        /\ pc \in {"run_gsa", "raised"}
        /\ pc = "raised" => err = "Exception"
        /\ model.sample = Unset
        /\ sampler_log = <<>>
        /\ eval_log = <<>>
        /\ gsa_results = GsaResults

Wit_C11_UnsupportedDistribution ==
    /\ ViaRunGsa
    /\ Lower(model.dist) \notin SamplerKinds
    /\ pc = "raised"
    /\ err = "Exception"
    /\ gsa_options.run_sobol

\* l_morris is an even integer >= 2
EvenLevels(l_morris) == l_morris >= 2 /\ l_morris % 2 = 0

\* C12: a Morris run only proceeds when l_morris is an even integer >= 2: for any other
\* l_morris, run_gsa with run_morris enabled raises before get_morris_poi_sample is
\* entered, so before any sampling or model evaluation; no perturbation distance is
\* handed on for such an l_morris.
Inv_C12_LMorrisValidation ==
    (ViaRunGsa /\ gsa_options.run_morris /\ ~EvenLevels(gsa_options.l_morris)) =>
        /\ pc \in {"run_gsa", "line80", "raised"}
        /\ morris.caller = "none"
        /\ morris.pert_distance = NaN

\* some value of a 1-d or 2-d array is an infinity or NaN
HasNonFinite(a) ==
    IF Ndim(a) = 1
    THEN \E i \in 1..a.shape[1] : ~IsFinite(a.v[i])
    ELSE \E i \in 1..a.shape[1], j \in 1..a.shape[2] : ~IsFinite(a.v[i][j])

\* the model returned a non-finite value for a row of some sample it was evaluated on
NonFiniteOutput == \E k \in 1..Len(eval_log) : HasNonFinite(eval_fcn(model, eval_log[k].x))

\* C13: if the model returns a non-finite value for some sample row during a Sobol or
\* Morris run, the estimator aborts: the call does not return, and no index or statistic
\* computed from the non-finite outputs is put into the result.
Inv_C13_NonFiniteOutputAborts ==
    NonFiniteOutput =>
        /\ pc # "returned"
        /\ Default(SobolFields)
        /\ Default(MorrisFields)

\* the signs and row orders k passes of the loop draw from generator state s when nothing
\* else draws in between
RECURSIVE AloneDraws(_, _, _)
AloneDraws(s, k, n_poi) ==
    IF k = 0 THEN [D |-> <<>>, P |-> <<>>]
    ELSE LET signs == choice(s, <<1, -1>>, n_poi)
             rows == shuffle(signs.st, [j \in 1..n_poi |-> j], n_poi - 1)
             rest == AloneDraws(rows.st, k - 1, n_poi)
         IN [D |-> <<signs.out>> \o rest.D, P |-> <<rows.out>> \o rest.P]

\* what the first call draws when it is the only one drawing, from the generator state
\* both calls started with
Alone ==
    LET r == CallSampler(model.sample, model, morris.n_samp, other.np_random0, 0)
        d == AloneDraws(r.st, morris.n_samp, morris.n_poi)
    IN [random_samp |-> r.a, D |-> d.D, P |-> d.P]

\* the first call has built all its blocks
FirstCallDone == pc = "line291" /\ morris.i_samp = morris.n_samp

\* C14: two runs for different models share no mutable state: the base points, D and P
\* one run draws are what it draws on its own, whether or not, and however interleaved,
\* the other run draws.
Inv_C14_RunsShareNoState ==
    FirstCallDone =>
        /\ morris.random_samp = Alone.random_samp
        /\ morris.D = Alone.D
        /\ morris.P = Alone.P

\* run_gsa has called get_morris_poi_sample
MorrisEntered == morris.caller = "run_gsa"

\* C15: when run_gsa runs Morris on a uniform model, get_morris_poi_sample is handed a
\* callable sampler, the sampler's result is one matrix with a row per trajectory (not an
\* (A, B) pair), and the call gets to build trajectories: it does not fail before the
\* first block is built.
Inv_C15_MorrisBasePointSampler ==
    (MorrisEntered /\ Lower(model.dist) = "uniform") =>
        /\ morris.param_dist.callable
        /\ ~morris.paired
        /\ pc = "raised" => Len(morris.D) > 0

\* rows lo+1 .. lo+n of a 2-d array, as an array
RowsOf(x, lo, n) == NdArray(<<n, x.shape[2]>>, [i \in 1..n |-> x.v[lo + i]])

\* theta*J + (Delta/2)*((2B - J)*D + J)*P for base point theta, signs d and row order perm
PermutedPerturbation(theta, d, perm, n_poi, pert_distance) ==
    LET J == Ones(n_poi + 1, n_poi)
        B == TrilOnes(n_poi + 1, n_poi)
        jTheta == Op2D(RMul, NdArray(<<1, n_poi>>, <<theta>>), J)
        pert == Scale2D(RDiv(pert_distance, Num(2)),
                        Op2D(RAdd, MatMul(Op2D(RSub, Scale2D(Num(2), B), J), Diag(d)), J))
    IN Op2D(RAdd, jTheta, MatMul(pert, PermMatrix(perm)))

\* C16: every trajectory block built by get_morris_poi_sample with random = True equals
\* theta*J + (Delta/2)*((2B - J)*D + J)*P for its base point theta, signs D and
\* permutation P: the permutation acts on the perturbation only, the base point's
\* coordinates stay with their parameters.
Inv_C16_TrajectoryFormula ==
    (morris.random /\ pc = "line291") =>
        \A k \in 1..BlocksBuilt :
            RowsOf(morris.morris_samp, (k - 1) * (morris.n_poi + 1), morris.n_poi + 1)
              = PermutedPerturbation(morris.random_samp.v[k], morris.D[k], morris.P[k],
                                     morris.n_poi, morris.pert_distance)

\* C17: within every trajectory block, for each step i in [0, n_poi) the single coordinate
\* that differs between row i and row i+1 is parameter i, the index at which
\* calculate_morris stores the difference of those two rows (lines 270-271), whatever
\* permutation P was drawn.
Inv_C17_StepPerturbsOwnParameter ==
    (pc = "line291") =>
        \A k \in 1..BlocksBuilt : \A i \in 1..morris.n_poi :
            LET first == (k - 1) * (morris.n_poi + 1)
            IN DiffCoords(morris.morris_samp, first + i, first + i + 1) = {i}

\* C18: calculate_morris evaluates the model once over all n_samp*(n_poi+1) rows and
\* regroups the result: block s of the separated tensor holds rows s*(n_poi+1) ..
\* (s+1)*(n_poi+1)-1 of the evaluation, in order; every block is written exactly once and
\* no write falls outside the tensor.
Inv_C18_MorrisRegrouping ==
    MorrisCalculated =>
        LET r == calculate_morris(model, morris.morris_samp, morris.pert_distance)
            n_samp == morris.n_samp
            n_poi == morris.n_poi
        IN /\ Len(SelectSeq(eval_log, LAMBDA e : e.what = "morris_samp")) = 1
           /\ r.writes = [s \in 1..n_samp |-> s - 1]
           /\ r.f_eval_seperated.shape = <<n_samp, n_poi + 1, model.n_qoi>>
           /\ \A s \in 1..n_samp, i \in 1..(n_poi + 1), q \in 1..model.n_qoi :
                r.f_eval_seperated.v[s][i][q]
                  = EvalRow(model.eval_fcn, q, morris.morris_samp.v[(s - 1) * (n_poi + 1) + i])

\* the attributes a model has when it is handed to run_gsa
GivenAttributes == {"dist", "dist_param", "n_poi", "n_qoi", "eval_fcn"}

PairedNames == {"uniform", "saltellinormal"}

\* C20: every distribution name the Model constructor accepts is one get_samp_dist builds
\* a sampler for instead of raising, and for every name get_sobol_sample expects an
\* (A, B) pair for, the sampler called returns a pair.
Inv_C20_DistributionNamesAgree ==
    (ViaRunGsa /\ model.dist \in ValidDistributions /\ pc # "run_gsa") =>
        /\ err # "Exception"
        /\ model.sample.callable
        /\ (pc = "line150" /\ Lower(model.dist) \in PairedNames) =>
              sampler_log[Len(sampler_log)].fn \in {"saltelli_sample", "saltelli_normal"}

====
